---- MODULE Spec2Model ----
(***************************************************************************)
(* ClashRoyaleAPI (src/api/api.py): the response cache APICache, the       *)
(* client RoyaleAPI (fetch_api_request and the five exposed operations),   *)
(* the URL construction, the cached_property accessors of the wrapper      *)
(* objects and the generator accessors over repeated sub-entities.         *)
(*                                                                         *)
(* Python values are modelled as follows.                                  *)
(*   None                    PyNone                                        *)
(*   a JSON body             [kind |-> "object" | "array", n |-> size]     *)
(*   Optional tuple / value  <<>> for None or a missing key, else a tuple  *)
(*   str                     a sequence of one-character strings           *)
(*   time.time()             the integer variable now (seconds)            *)
(***************************************************************************)
EXTENDS Integers, Sequences, FiniteSets, TLC

VARIABLES
    cache,      \* APICache._cache: the dict url -> <<timestamp, data>>
    ttl,        \* APICache._ttl: <<>> for None (forever), <<t>> for t seconds
    now,        \* time.time()
    lastSet,    \* observer: url -> <<time, value>> of a caller's latest set
    last,       \* observer: what the most recent call did and returned
    gets,       \* the number of HTTP GETs self.client.get has issued
    gen,        \* the generator object get_player_battle_log returned last
    pc,         \* per thread: the line of APICache.get/set it is about to run
    loc,        \* per thread: the locals of the call it is in
    popped,     \* observer: <<>> or what the latest self._cache.pop removed
    built,      \* observer: the last two urls built, with operation and tag
    obj,        \* a wrapper object: its JSON, its __dict__ and the reads made
    seq         \* a generator accessor call: its payload and what it yielded

cacheVars == <<cache, ttl, now, lastSet, last>>

clientVars == <<gets, gen>>

threadVars == <<pc, loc, popped>>

\* What the cache and client specifications leave alone.
offClient == <<threadVars, built, obj, seq>>

vars == <<cacheVars, clientVars, threadVars, built, obj, seq>>

----------------------------------------------------------------------------
(* Bounds of the model *)

MaxTime == 2
MaxTTL == 1
MaxBodyLen == 1
MaxGets == 2
NThreads == 2
MaxTagLen == 2
MaxReads == 3
MaxElems == 2

----------------------------------------------------------------------------
(* Values *)

PyNone == [kind |-> "None", n |-> 0]

\* The JSON bodies the server can send: an object or an array of any size.
Bodies == [kind : {"object", "array"}, n : 0..MaxBodyLen]

\* Python truthiness of a cached/returned body: None, {} and [] are falsy.
Truthy(v) == v.kind # "None" /\ v.n > 0

Ttls == {<<>>} \cup {<<t>> : t \in 0..MaxTTL}

----------------------------------------------------------------------------
(* URL construction: RoyaleAPI.get_player .. get_clan_river_race_log *)

\* A variant of the encoding that replaces the first "#" only, as
\* str.replace("#", "%23", 1) would.
replace_first(s) ==
    IF \E i \in 1..Len(s) : s[i] = "#"
    THEN LET i == CHOOSE j \in 1..Len(s) : s[j] = "#" /\ \A k \in 1..(j - 1) : s[k] # "#"
         IN  SubSeq(s, 1, i - 1) \o <<"%", "2", "3">> \o SubSeq(s, i + 1, Len(s))
    ELSE s

RECURSIVE replace(_)
\* str.replace("#", "%23"): every occurrence, left to right.
replace(s) ==
    IF s = <<>> THEN <<>>
    ELSE (IF Head(s) = "#" THEN <<"%", "2", "3">> ELSE <<Head(s)>>)
         \o replace(Tail(s))

Operations ==
    {"get_player", "get_player_chest_cycle", "get_player_battle_log",
     "get_clan", "get_clan_river_race_log"}

\* The f-string of each operation: the literal text before and after the tag.
UrlPrefix(op) ==
    IF op \in {"get_clan", "get_clan_river_race_log"}
    THEN <<"https://api.clashroyale.com/v1/clans/">>
    ELSE <<"https://api.clashroyale.com/v1/players/">>

UrlSuffix(op) ==
    CASE op = "get_player_chest_cycle" -> <<"/upcomingchests">>
      [] op = "get_player_battle_log" -> <<"/battlelog">>
      [] op = "get_clan_river_race_log" -> <<"/riverracelog">>
      [] OTHER -> <<>>

build_url(op, tag) == UrlPrefix(op) \o replace(tag) \o UrlSuffix(op)

\* The characters tags are made of, and the tags of the url specification.
TagChars == {"#", "2"}

Tags == UNION {[1..n -> TagChars] : n \in 0..MaxTagLen}

\* The tags the client is called with in the cache and client specifications.
ClientTags == {<<"#", "2">>}

Urls == {build_url(op, tag) : op \in Operations, tag \in ClientTags}

\* The keys the bare cache is exercised with.
CacheKeys == {build_url(op, tag) : op \in {"get_player", "get_clan"}, tag \in ClientTags}

----------------------------------------------------------------------------
(* APICache *)

\* self._cache is a dict: a function whose domain is the keys it holds.
EmptyDict == [u \in {} |-> <<>>]

\* dict.get(url): the entry under url, <<>> (None) when the key is absent
dict_get(d, url) == IF url \in DOMAIN d THEN d[url] ELSE <<>>

\* dict.pop(url, None), the dict it leaves
dict_pop(d, url) == [u \in DOMAIN d \ {url} |-> d[u]]

\* d[url] = entry, the dict it leaves
dict_setitem(d, url, entry) ==
    [u \in DOMAIN d \cup {url} |-> IF u = url THEN entry ELSE d[u]]

\* A variant of _is_valid that still accepts an entry whose age equals the TTL.
APICache_is_valid_inclusive(timestamp) ==
    IF ttl = <<>> THEN TRUE ELSE (now - timestamp) <= ttl[1]

\* APICache._is_valid
APICache_is_valid(timestamp) ==
    IF ttl = <<>> THEN TRUE ELSE (now - timestamp) < ttl[1]

\* APICache.get, the value returned
APICache_get(url) ==
    LET entry == dict_get(cache, url) IN
    IF entry # <<>> /\ APICache_is_valid(entry[1]) THEN entry[2] ELSE PyNone

\* A variant of get that leaves an expired entry in the map.
APICache_get_cache_keep(url) == cache

\* APICache.get, the cache it leaves: an expired entry is popped
APICache_get_cache(url) ==
    LET entry == dict_get(cache, url) IN
    IF entry # <<>> /\ ~APICache_is_valid(entry[1])
    THEN dict_pop(cache, url)
    ELSE cache

\* APICache.set, the cache it leaves
APICache_set(c, url, data) == dict_setitem(c, url, <<now, data>>)

NoCall ==
    [op |-> "none", url |-> <<>>, status |-> 0, pre |-> <<>>, at |-> 0,
     gets |-> 0, ret |-> PyNone, fexc |-> "", outcome |-> "none", exc |-> ""]

NoGen == [st |-> "none", url |-> <<>>, left |-> 0]

\* RoyaleAPI.__init__: no request made, no generator handed out
IdleClient == gets = 0 /\ gen = NoGen

Threads == 1..NThreads

NoLocals == [url |-> <<>>, entry |-> <<>>, data |-> PyNone, ts |-> 0, ret |-> PyNone]

\* No thread is inside the cache.
IdleThreads ==
    /\ pc = [t \in Threads |-> "idle"]
    /\ loc = [t \in Threads |-> NoLocals]
    /\ popped = <<>>

\* No url built, no wrapper object and no generator accessor in play.
IdleRest == IdleThreads /\ built = <<>> /\ obj = <<>> /\ seq = <<>>

\* APICache.__init__
InitCache ==
    /\ cache = EmptyDict
    /\ ttl \in Ttls
    /\ now = 0
    /\ lastSet = EmptyDict
    /\ last = NoCall

\* A caller's cache.get(url)
CacheGet ==
    \E url \in CacheKeys :
        /\ cache' = APICache_get_cache(url)
        /\ last' = [NoCall EXCEPT !.op = "cache.get", !.url = url,
                        !.pre = dict_get(cache, url), !.at = now,
                        !.ret = APICache_get(url), !.outcome = "return"]
        /\ UNCHANGED <<ttl, now, lastSet, clientVars, offClient>>

\* A caller's cache.set(url, data)
CacheSet ==
    \E url \in CacheKeys, data \in Bodies :
        /\ cache' = APICache_set(cache, url, data)
        /\ lastSet' = dict_setitem(lastSet, url, <<now, data>>)
        /\ last' = [NoCall EXCEPT !.op = "cache.set", !.url = url,
                        !.pre = dict_get(cache, url), !.at = now, !.outcome = "return"]
        /\ UNCHANGED <<ttl, now, clientVars, offClient>>

\* The clock advances by one second.
Tick ==
    /\ now < MaxTime
    /\ now' = now + 1
    /\ UNCHANGED <<cache, ttl, lastSet, last, clientVars, offClient>>

InitCacheSpec == InitCache /\ IdleClient /\ IdleRest

NextCache == CacheGet \/ CacheSet \/ Tick

SpecCache == InitCacheSpec /\ [][NextCache]_vars

----------------------------------------------------------------------------
(* RoyaleAPI.fetch_api_request *)

\* The status codes the server answers with; 404 stands for every status the
\* if/elif chain does not name.
Statuses == {200, 400, 403, 429, 500, 503, 404}

\* What the server answers to a GET: a status and, with 200, a JSON body.
Responses ==
    {[status |-> 200, body |-> b] : b \in Bodies}
    \cup {[status |-> s, body |-> PyNone] : s \in Statuses \ {200}}

\* A variant of the elif chain that raises APIError for 429 as for 500.
raised_for_merged(status) ==
    CASE status = 403 -> "InvalidAPIToken"
      [] status \in {429, 500, 503} -> "APIError"
      [] status = 400 -> "InvalidParameter"
      [] OTHER -> ""

\* The exception the elif chain raises for a status ("" when it raises none)
raised_for(status) ==
    CASE status = 403 -> "InvalidAPIToken"
      [] status = 429 -> "RateLimitExceeded"
      [] status \in {500, 503} -> "APIError"
      [] status = 400 -> "InvalidParameter"
      [] OTHER -> ""

\* `if not json_response`: the request goes to the server
misses(url) == ~Truthy(APICache_get(url))

\* No response: the call did not reach the server.
NoResponse == [status |-> 0, body |-> PyNone]

\* The answers a fetch of url can meet: the server's when the request goes
\* out, none when the cache answers.
Answers(url) == IF misses(url) THEN Responses ELSE {NoResponse}

\* fetch_api_request(url) when the server would answer resp: the cache it
\* leaves, the GETs it issues, what it returns and what it raises.
fetch_api_request(url, resp) ==
    LET json_response == APICache_get(url)
        looked == APICache_get_cache(url)
    IN  IF ~misses(url)
        THEN [cache |-> looked, gets |-> 0, ret |-> json_response, fexc |-> ""]
        ELSE IF resp.status = 200
        THEN [cache |-> APICache_set(looked, url, resp.body), gets |-> 1,
              ret |-> resp.body, fexc |-> ""]
        ELSE IF raised_for(resp.status) # ""
        THEN [cache |-> looked, gets |-> 1, ret |-> PyNone,
              fexc |-> raised_for(resp.status)]
        ELSE [cache |-> looked, gets |-> 1, ret |-> json_response, fexc |-> ""]

\* The observer's record of a call of operation op that ran fetch_api_request.
Called(op, url, resp, f) ==
    [op |-> op, url |-> url, status |-> resp.status, pre |-> dict_get(cache, url),
     at |-> now, gets |-> f.gets, ret |-> f.ret, fexc |-> f.fexc,
     outcome |-> IF f.fexc # "" THEN "raise" ELSE "return", exc |-> f.fexc]

\* The part common to the operations that fetch when called.
Fetching(op, tag, resp) ==
    LET url == build_url(op, tag)
        f == fetch_api_request(url, resp)
    IN  /\ gets + f.gets <= MaxGets
        /\ cache' = f.cache
        /\ gets' = gets + f.gets
        /\ UNCHANGED <<ttl, now, lastSet, gen, offClient>>

\* A caller's fetch_api_request(url)
fetch ==
    \E url \in CacheKeys :
      \E resp \in Answers(url) :
        LET f == fetch_api_request(url, resp) IN
        /\ gets + f.gets <= MaxGets
        /\ cache' = f.cache
        /\ gets' = gets + f.gets
        /\ last' = Called("fetch_api_request", url, resp, f)
        /\ UNCHANGED <<ttl, now, lastSet, gen, offClient>>

\* RoyaleAPI.get_player: Player(data)
get_player ==
    \E tag \in ClientTags :
      \E resp \in Answers(build_url("get_player", tag)) :
        /\ Fetching("get_player", tag, resp)
        /\ last' = Called("get_player", build_url("get_player", tag), resp,
                          fetch_api_request(build_url("get_player", tag), resp))

\* RoyaleAPI.get_player_chest_cycle: data.get("items"), which None and a list
\* do not have
get_player_chest_cycle ==
    \E tag \in ClientTags :
      \E resp \in Answers(build_url("get_player_chest_cycle", tag)) :
        LET url == build_url("get_player_chest_cycle", tag)
            f == fetch_api_request(url, resp)
            c == Called("get_player_chest_cycle", url, resp, f)
        IN  /\ Fetching("get_player_chest_cycle", tag, resp)
            /\ last' = IF f.fexc = "" /\ f.ret.kind # "object"
                       THEN [c EXCEPT !.outcome = "raise", !.exc = "AttributeError"]
                       ELSE c

\* RoyaleAPI.get_player_battle_log: a generator function; the call builds
\* the generator object and runs none of the body.
get_player_battle_log ==
    \E tag \in ClientTags :
      \E resp \in Answers(build_url("get_player_battle_log", tag)) :
        LET url == build_url("get_player_battle_log", tag)
            status == resp.status
        IN
        /\ gen' = [st |-> "created", url |-> url, left |-> 0]
        /\ last' = [NoCall EXCEPT !.op = "get_player_battle_log", !.url = url,
                        !.status = status, !.pre = dict_get(cache, url),
                        !.at = now, !.outcome = "generator"]
        /\ UNCHANGED <<cache, ttl, now, lastSet, gets, offClient>>

\* next() on the generator: the first one runs the body up to its first
\* yield (url, fetch_api_request, the for loop over data).
generator_next ==
    \/ /\ gen.st = "created"
       /\ \E resp \in Answers(gen.url) :
            LET f == fetch_api_request(gen.url, resp)
                c == [Called("next", gen.url, resp, f) EXCEPT !.outcome =
                         IF f.fexc # "" THEN "raise" ELSE "yield"]
            IN  /\ gets + f.gets <= MaxGets
                /\ cache' = f.cache
                /\ gets' = gets + f.gets
                /\ IF f.fexc # ""
                   THEN gen' = [gen EXCEPT !.st = "closed"] /\ last' = c
                   ELSE IF f.ret = PyNone
                   THEN /\ gen' = [gen EXCEPT !.st = "closed"]
                        /\ last' = [c EXCEPT !.outcome = "raise", !.exc = "TypeError"]
                   ELSE IF f.ret.n = 0
                   THEN /\ gen' = [gen EXCEPT !.st = "closed"]
                        /\ last' = [c EXCEPT !.outcome = "stop"]
                   ELSE /\ gen' = [gen EXCEPT !.st = "running", !.left = f.ret.n - 1]
                        /\ last' = c
                /\ UNCHANGED <<ttl, now, lastSet, offClient>>
    \/ /\ gen.st = "running"
       /\ gen' = IF gen.left > 0 THEN [gen EXCEPT !.left = @ - 1]
                 ELSE [gen EXCEPT !.st = "closed"]
       /\ last' = [NoCall EXCEPT !.op = "next_again", !.url = gen.url, !.at = now,
                       !.pre = dict_get(cache, gen.url),
                       !.outcome = IF gen.left > 0 THEN "yield" ELSE "stop"]
       /\ UNCHANGED <<cache, ttl, now, lastSet, gets, offClient>>

\* RoyaleAPI.get_clan: Clan(data)
get_clan ==
    \E tag \in ClientTags :
      \E resp \in Answers(build_url("get_clan", tag)) :
        /\ Fetching("get_clan", tag, resp)
        /\ last' = Called("get_clan", build_url("get_clan", tag), resp,
                          fetch_api_request(build_url("get_clan", tag), resp))

\* RoyaleAPI.get_clan_river_race_log: ClanRiverRaceLog(data)
get_clan_river_race_log ==
    \E tag \in ClientTags :
      \E resp \in Answers(build_url("get_clan_river_race_log", tag)) :
        LET url == build_url("get_clan_river_race_log", tag) IN
        /\ Fetching("get_clan_river_race_log", tag, resp)
        /\ last' = Called("get_clan_river_race_log", url, resp,
                          fetch_api_request(url, resp))

Init == InitCache /\ IdleClient /\ IdleRest

Next ==
    \/ get_player
    \/ get_player_chest_cycle
    \/ get_player_battle_log
    \/ generator_next
    \/ get_clan
    \/ get_clan_river_race_log
    \/ Tick

Spec == Init /\ [][Next]_vars

\* fetch_api_request on its own, called directly.
NextFetch == fetch \/ Tick

SpecFetch == Init /\ [][NextFetch]_vars

----------------------------------------------------------------------------
(* APICache shared by several threads: get and set run without a lock, so a  *)
(* thread switch can fall between any two of their steps.                    *)

\* The key the threads contend for.
ThreadKeys == {build_url("get_player", tag) : tag \in ClientTags}

\* `loc` with thread t's locals replaced
Locals(t, l) == [loc EXCEPT ![t] = l]

Goto(t, label) == pc' = [pc EXCEPT ![t] = label]

\* The locals of a thread that has returned: only the value returned is kept.
Returned(t, value) == Locals(t, [NoLocals EXCEPT !.ret = value])

\* The player documents the threads store.
ThreadBodies == {b \in Bodies : b.kind = "object"}

offThreads == <<ttl, now, lastSet, last, clientVars, built, obj, seq>>

\* A thread enters APICache.get(url).
APICache_get_call ==
    \E t \in Threads, url \in ThreadKeys :
        /\ pc[t] = "idle"
        /\ Goto(t, "get_31")
        /\ loc' = Locals(t, [NoLocals EXCEPT !.url = url])
        /\ UNCHANGED <<cache, popped, offThreads>>

\* line 31-32: entry = self._cache.get(url); if entry:
APICache_get_line31 ==
    \E t \in Threads :
        /\ pc[t] = "get_31"
        /\ IF dict_get(cache, loc[t].url) # <<>>
           THEN /\ loc' = Locals(t, [loc[t] EXCEPT !.entry = dict_get(cache, loc[t].url)])
                /\ Goto(t, "get_34")
           ELSE /\ loc' = Returned(t, PyNone)
                /\ Goto(t, "idle")
        /\ UNCHANGED <<cache, popped, offThreads>>

\* line 33-35: timestamp, data = entry; if self._is_valid(timestamp): return data
APICache_get_line34 ==
    \E t \in Threads :
        /\ pc[t] = "get_34"
        /\ IF APICache_is_valid(loc[t].entry[1])
           THEN /\ loc' = Returned(t, loc[t].entry[2])
                /\ Goto(t, "idle")
           ELSE /\ loc' = loc
                /\ Goto(t, "get_37")
        /\ UNCHANGED <<cache, popped, offThreads>>

\* line 37-38: self._cache.pop(url, None); return None
APICache_get_line37 ==
    \E t \in Threads :
        /\ pc[t] = "get_37"
        /\ cache' = dict_pop(cache, loc[t].url)
        /\ popped' = [url |-> loc[t].url, entry |-> dict_get(cache, loc[t].url), at |-> now,
                      seen |-> loc[t].entry]
        /\ loc' = Returned(t, PyNone)
        /\ Goto(t, "idle")
        /\ UNCHANGED offThreads

\* A thread enters APICache.set(url, data).
APICache_set_call ==
    \E t \in Threads, url \in ThreadKeys, data \in ThreadBodies :
        /\ pc[t] = "idle"
        /\ Goto(t, "set_41")
        /\ loc' = Locals(t, [NoLocals EXCEPT !.url = url, !.data = data])
        /\ UNCHANGED <<cache, popped, offThreads>>

\* line 41, right-hand side: (time.time(), data)
APICache_set_line41 ==
    \E t \in Threads :
        /\ pc[t] = "set_41"
        /\ loc' = Locals(t, [loc[t] EXCEPT !.ts = now])
        /\ Goto(t, "set_41_store")
        /\ UNCHANGED <<cache, popped, offThreads>>

\* line 41, the store: self._cache[url] = ...
APICache_set_store ==
    \E t \in Threads :
        /\ pc[t] = "set_41_store"
        /\ cache' = dict_setitem(cache, loc[t].url, <<loc[t].ts, loc[t].data>>)
        /\ loc' = Returned(t, PyNone)
        /\ Goto(t, "idle")
        /\ UNCHANGED <<popped, offThreads>>

NextThreads ==
    \/ APICache_get_call
    \/ APICache_get_line31
    \/ APICache_get_line34
    \/ APICache_get_line37
    \/ APICache_set_call
    \/ APICache_set_line41
    \/ APICache_set_store
    \/ Tick

SpecThreads == Init /\ [][NextThreads]_vars

----------------------------------------------------------------------------
(* URL construction on its own *)

\* The first two statements of an operation: the tag is encoded and the url
\* built; the observer keeps the last two builds.
build ==
    \E op \in Operations, tag \in Tags :
        /\ built' = (IF built = <<>> THEN <<>> ELSE <<built[Len(built)]>>)
                    \o <<[op |-> op, tag |-> tag, url |-> build_url(op, tag)]>>
        /\ UNCHANGED <<cacheVars, clientVars, threadVars, obj, seq>>

NextUrl == build

\* RoyaleAPI(api_token): ttl keeps its default, None.
InitDefault == Init /\ ttl = <<>>

SpecUrl == InitDefault /\ [][NextUrl]_vars

----------------------------------------------------------------------------
(* Wrapper objects: the cached_property accessors *)

\* A JSON value under a key, as dict.get returns it: None (key absent or
\* null), an int, or a str (a sequence of characters).
XNone == [t |-> "None", i |-> 0, s |-> <<>>]

XInt(n) == [t |-> "int", i |-> n, s |-> <<>>]

XStr(chars) == [t |-> "str", i |-> 0, s |-> chars]

\* The values a key is given: absent, a number, the same number as text, a name.
JVals == {XNone, XInt(13), XStr(<<"1", "3">>), XStr(<<"A", "s", "h">>)}

DigitChars == <<"0", "1", "2", "3", "4", "5", "6", "7", "8", "9">>

IsDigit(c) == \E d \in 1..10 : DigitChars[d] = c

DigitValue(c) == (CHOOSE d \in 1..10 : DigitChars[d] = c) - 1

RECURSIVE Decimal(_)
\* The decimal digits of a natural number
Decimal(n) ==
    IF n < 10 THEN <<DigitChars[n + 1]>>
    ELSE Decimal(n \div 10) \o <<DigitChars[(n % 10) + 1]>>

RECURSIVE Parsed(_)
\* The number a sequence of digits denotes
Parsed(chars) ==
    IF chars = <<>> THEN 0
    ELSE 10 * Parsed(SubSeq(chars, 1, Len(chars) - 1)) + DigitValue(chars[Len(chars)])

\* The result of a conversion: a value, or the exception it raises.
Value(v) == [outcome |-> "return", value |-> v, exc |-> ""]

Raise(e) == [outcome |-> "raise", value |-> XNone, exc |-> e]

\* str(v)
py_str(v) ==
    CASE v.t = "None" -> Value(XStr(<<"N", "o", "n", "e">>))
      [] v.t = "int" -> Value(XStr(Decimal(v.i)))
      [] OTHER -> Value(v)

\* int(v)
py_int(v) ==
    CASE v.t = "None" -> Raise("TypeError")
      [] v.t = "int" -> Value(v)
      [] OTHER ->
            IF v.s # <<>> /\ \A k \in 1..Len(v.s) : IsDigit(v.s[k])
            THEN Value(XInt(Parsed(v.s)))
            ELSE Raise("ValueError")

\* The memoized accessors modelled: class, property, JSON key and body.
\*   "str"      return str(self.data.get(key))
\*   "int"      return int(self.data.get(key))
\*   "opt_str"  value = get(key); return str(value) if value is not None else None
\*   "opt_int"  value = get(key); return int(value) if value is not None else None
\*   "str_int"  value = str(get(key)); return int(value) if value is not None else None
Accessors ==
    {[cls |-> "Player", name |-> "name", key |-> "name", conv |-> "str"],
     [cls |-> "Player", name |-> "experience_level", key |-> "expLevel", conv |-> "int"],
     [cls |-> "Player", name |-> "trophies", key |-> "trophies", conv |-> "int"],
     [cls |-> "BaseCard", name |-> "name", key |-> "name", conv |-> "opt_str"],
     [cls |-> "BaseCard", name |-> "id", key |-> "id", conv |-> "opt_int"],
     [cls |-> "BaseCard", name |-> "level", key |-> "level", conv |-> "opt_int"],
     [cls |-> "BaseCard", name |-> "max_level", key |-> "maxLevel", conv |-> "opt_int"],
     [cls |-> "BaseCard", name |-> "rarity", key |-> "rarity", conv |-> "opt_str"],
     [cls |-> "BaseCard", name |-> "count", key |-> "count", conv |-> "opt_int"],
     [cls |-> "BaseCard", name |-> "elixir_cost", key |-> "elixirCost", conv |-> "opt_int"],
     [cls |-> "BaseCard", name |-> "star_level", key |-> "starLevel", conv |-> "str_int"],
     [cls |-> "BaseCard", name |-> "evolution_level", key |-> "evolutionLevel",
      conv |-> "opt_int"]}

\* The body of an accessor, run on the value its key holds.
convert(conv, v) ==
    CASE conv = "str" -> py_str(v)
      [] conv = "int" -> py_int(v)
      [] conv = "opt_str" -> IF v # XNone THEN py_str(v) ELSE Value(XNone)
      [] conv = "opt_int" -> IF v # XNone THEN py_int(v) ELSE Value(XNone)
      [] OTHER -> py_int(py_str(v).value)

NoRead == [outcome |-> "none", value |-> XNone, exc |-> ""]

offObj == <<cacheVars, clientVars, threadVars, built, seq>>

\* __init__(data): a wrapper around a JSON object; one of its accessors and
\* the value under that accessor's key are followed.
wrap ==
    \E acc \in Accessors, v \in JVals :
        /\ obj = <<>>
        /\ obj' = [acc |-> acc, json |-> v, memo |-> <<>>, convs |-> 0,
                   reads |-> 0, first |-> NoRead, rd |-> NoRead, changed |-> FALSE]
        /\ UNCHANGED offObj

\* A read of the accessor: functools.cached_property returns the value stored
\* in the instance __dict__, or runs the body and stores what it returns; an
\* exception from the body stores nothing.
read ==
    /\ obj # <<>>
    /\ obj.reads < MaxReads
    /\ LET r == IF obj.memo # <<>> THEN Value(obj.memo[1])
                ELSE convert(obj.acc.conv, obj.json)
       IN  obj' = [obj EXCEPT
                     !.reads = @ + 1,
                     !.convs = IF obj.memo # <<>> THEN @ ELSE @ + 1,
                     !.memo = IF obj.memo = <<>> /\ r.outcome = "return"
                              THEN <<r.value>> ELSE @,
                     !.first = IF obj.reads = 0 THEN r ELSE @,
                     !.rd = r]
    /\ UNCHANGED offObj

\* The caller changes the JSON object the wrapper holds by reference.
change_json ==
    \E v \in JVals :
        /\ obj # <<>>
        /\ ~obj.changed
        /\ v # obj.json
        /\ obj' = [obj EXCEPT !.json = v, !.changed = TRUE]
        /\ UNCHANGED offObj

NextMemo == wrap \/ read \/ change_json

SpecMemo == InitDefault /\ [][NextMemo]_vars

----------------------------------------------------------------------------
(* Wrapper objects: the generator accessors over repeated sub-entities *)

\* The accessors: class, method, JSON key, the default given to dict.get (none
\* or an empty list) and whether the body loops over the value or yields one
\* wrapper of it.
LazyAccessors ==
    {[cls |-> "Player", name |-> n[1], key |-> n[2], default |-> "None", body |-> "each"] :
        n \in {<<"get_player_badges", "badges">>,
               <<"get_player_achievements", "achievements">>,
               <<"get_player_cards", "cards">>,
               <<"get_player_support_cards", "supportCards">>,
               <<"get_player_current_deck", "currentDeck">>,
               <<"get_player_current_support_cards", "currentDeckSupportCards">>}}
    \cup
    {[cls |-> "Player", name |-> "get_player_current_favorite_card",
      key |-> "currentFavouriteCard", default |-> "None", body |-> "one"],
     [cls |-> "Clan", name |-> "get_members", key |-> "memberList",
      default |-> "None", body |-> "each"],
     [cls |-> "PlayerBattleBase", name |-> "get_cards", key |-> "cards",
      default |-> "[]", body |-> "each"],
     [cls |-> "PlayerBattleLog", name |-> "get_team_data", key |-> "team",
      default |-> "[]", body |-> "each"],
     [cls |-> "PlayerBattleLog", name |-> "get_opponent_team_data", key |-> "opponent",
      default |-> "[]", body |-> "each"]}

\* What the payload holds under the key: nothing (the key is absent), or n
\* sub-entities.
Payloads ==
    {[present |-> FALSE, n |-> 0]} \cup {[present |-> TRUE, n |-> k] : k \in 0..MaxElems}

\* What a body that loops iterates over: the list under the key, the default
\* when the key is absent; -1 stands for None, which cannot be iterated.
Iterated(acc, payload) ==
    IF payload.present THEN payload.n
    ELSE IF acc.default = "[]" THEN 0 ELSE -1

offSeq == <<cacheVars, clientVars, threadVars, built, obj>>

\* A call of the accessor: a generator object, none of whose body has run.
lazy_call ==
    \E acc \in LazyAccessors, payload \in Payloads :
        /\ (acc.body = "one" => payload.n <= 1)
        /\ seq' = [acc |-> acc, payload |-> payload, st |-> "created",
                   yielded |-> 0, exc |-> ""]
        /\ UNCHANGED offSeq

\* next() on the generator: the body runs to its next yield, to its end, or
\* to an exception.
lazy_next ==
    /\ seq # <<>>
    /\ seq.st \in {"created", "running"}
    /\ seq' =
         IF seq.acc.body = "one"
         THEN IF seq.yielded = 0
              THEN [seq EXCEPT !.st = "running", !.yielded = 1]
              ELSE [seq EXCEPT !.st = "done"]
         ELSE LET n == Iterated(seq.acc, seq.payload) IN
              IF n < 0
              THEN [seq EXCEPT !.st = "raised", !.exc = "TypeError"]
              ELSE IF seq.yielded < n
              THEN [seq EXCEPT !.st = "running", !.yielded = @ + 1]
              ELSE [seq EXCEPT !.st = "done"]
    /\ UNCHANGED offSeq

NextLazy == lazy_call \/ lazy_next

SpecLazy == InitDefault /\ [][NextLazy]_vars

----------------------------------------------------------------------------
(* get_player end to end: the fetch, the Player wrapper and its fields *)

\* The "clan" object of a player body: its "tag" key missing (<<>>) or set.
Clan(tag) == [t |-> "dict", tag |-> tag]

\* A player body: a JSON object of n keys with the values under "name",
\* "expLevel", "trophies" and "clan", XNone standing for a key the body lacks.
PlayerBody(name, expLevel, trophies, clan) ==
    [kind |-> "object",
     n |-> Cardinality({k \in 1..4 : <<name, expLevel, trophies, clan>>[k].t # "None"}),
     name |-> name, expLevel |-> expLevel, trophies |-> trophies, clan |-> clan]

\* The player bodies the server sends: the full one, the same with the level
\* as text, one of a player without a clan, one whose clan has no tag, one
\* without a level, and the empty object.
PlayerBodies ==
    LET Ash == XStr(<<"A", "s", "h">>)
        ABC == Clan(<<XStr(<<"#", "A", "B", "C">>)>>)
    IN  {PlayerBody(Ash, XInt(13), XInt(6800), ABC),
         PlayerBody(Ash, XStr(<<"1", "3">>), XInt(6800), ABC),
         PlayerBody(Ash, XInt(13), XInt(6800), XNone),
         PlayerBody(Ash, XInt(13), XInt(6800), Clan(<<>>)),
         PlayerBody(Ash, XNone, XInt(6800), ABC),
         PlayerBody(XNone, XNone, XNone, XNone)}

\* What the server answers to the GET of a player.
PlayerResponses ==
    {[status |-> 200, body |-> b] : b \in PlayerBodies}
    \cup {[status |-> s, body |-> PyNone] : s \in Statuses \ {200}}

PlayerAnswers(url) == IF misses(url) THEN PlayerResponses ELSE {NoResponse}

\* The Player accessors followed.
PlayerFields == {"name", "experience_level", "trophies", "clan_tag"}

\* A variant of the accessors that hands out the JSON value as it is.
Player_field_uncoerced(field, data) ==
    CASE data.kind = "None" -> Raise("AttributeError")
      [] field = "name" -> Value(data.name)
      [] field = "experience_level" -> Value(data.expLevel)
      [] field = "trophies" -> Value(data.trophies)
      [] OTHER ->
            IF data.clan.t = "None" THEN Raise("TypeError")
            ELSE IF data.clan.tag = <<>> THEN Raise("KeyError")
            ELSE Value(data.clan.tag[1])

\* The body of a Player accessor run on self.data: data.get(key) on None
\* raises AttributeError, None["tag"] TypeError, a clan without "tag" KeyError.
Player_field(field, data) ==
    CASE data.kind = "None" -> Raise("AttributeError")
      [] field = "name" -> py_str(data.name)
      [] field = "experience_level" -> py_int(data.expLevel)
      [] field = "trophies" -> py_int(data.trophies)
      [] OTHER ->
            IF data.clan.t = "None" THEN Raise("TypeError")
            ELSE IF data.clan.tag = <<>> THEN Raise("KeyError")
            ELSE py_str(data.clan.tag[1])

offPlayer == <<ttl, now, lastSet, gen, threadVars, built, seq>>

\* RoyaleAPI.get_player(tag) with the wrapper it returns: Player(data) holds
\* what fetch_api_request returned; a raising call returns no wrapper.
\* sent is the body the server answered with (PyNone when it sent none), seen
\* the outcome of the latest read of each accessor read so far.
get_player_wrapper ==
    \E tag \in ClientTags :
      \E resp \in PlayerAnswers(build_url("get_player", tag)) :
        LET url == build_url("get_player", tag)
            f == fetch_api_request(url, resp)
        IN  /\ gets + f.gets <= MaxGets
            /\ cache' = f.cache
            /\ gets' = gets + f.gets
            /\ last' = Called("get_player", url, resp, f)
            /\ obj' = IF f.fexc # "" THEN obj
                      ELSE [data |-> f.ret, sent |-> resp.body, memo |-> EmptyDict,
                            seen |-> EmptyDict]
            /\ UNCHANGED offPlayer

\* A read of one accessor of the wrapper: cached_property returns the value
\* in the instance __dict__, or runs the body and stores what it returns.
Player_read ==
    \E field \in PlayerFields :
        /\ obj # <<>>
        /\ LET r == IF field \in DOMAIN obj.memo THEN Value(obj.memo[field])
                    ELSE Player_field(field, obj.data)
           IN  obj' = [obj EXCEPT
                         !.memo = IF field \notin DOMAIN @ /\ r.outcome = "return"
                                  THEN dict_setitem(@, field, r.value) ELSE @,
                         !.seen = dict_setitem(@, field, r)]
        /\ UNCHANGED <<cacheVars, clientVars, threadVars, built, seq>>

NextPlayer == get_player_wrapper \/ Player_read \/ Tick

SpecPlayer == Init /\ [][NextPlayer]_vars

----------------------------------------------------------------------------
(* Claims about APICache, checked under SpecCache *)

\* Age-based expiry stated from the TTL and two instants, independently of
\* APICache._is_valid.
ExpiredAt(timestamp, t) == ttl # <<>> /\ t - timestamp >= ttl[1]

\* C1 (cache freshness): a get(k) made d seconds after the most recent
\* set(k, v) returns v when the TTL is None or d < TTL, and returns None when
\* d >= TTL; no value is returned past its TTL.
C1_CacheFreshness ==
    (last.op = "cache.get" /\ dict_get(lastSet, last.url) # <<>>) =>
        LET s == dict_get(lastSet, last.url)
            d == last.at - s[1]
        IN  IF ttl = <<>> \/ d < ttl[1]
            THEN last.ret = s[2]
            ELSE last.ret = PyNone

\* C1 witness: a get made at least TTL seconds after a set of a real value,
\* with a TTL that leaves a window, answered None.
C1_Witness ==
    /\ last.op = "cache.get"
    /\ dict_get(lastSet, last.url) # <<>>
    /\ ttl # <<>> /\ ttl[1] > 0
    /\ last.at - dict_get(lastSet, last.url)[1] >= ttl[1]
    /\ Truthy(dict_get(lastSet, last.url)[2])
    /\ last.ret = PyNone

\* One step of the cache, as C5 constrains it.
C5_Step ==
    /\ \A k \in Urls :
        /\ (dict_get(cache, k) # <<>> /\ dict_get(cache', k) = <<>>) =>
               /\ last'.op = "cache.get" /\ last'.url = k
               /\ ExpiredAt(dict_get(cache, k)[1], now)
        /\ (dict_get(cache, k) = <<>> /\ dict_get(cache', k) # <<>>) =>
               (last'.op = "cache.set" /\ last'.url = k)
    /\ (now' = now /\ last'.op = "cache.get") =>
          LET k == last'.url IN
          /\ (dict_get(cache, k) # <<>> /\ ExpiredAt(dict_get(cache, k)[1], now)) =>
                 (last'.ret = PyNone /\ dict_get(cache', k) = <<>>)
          /\ dict_get(cache, k) = <<>> => (last'.ret = PyNone /\ dict_get(cache', k) = <<>>)
          /\ \A j \in Urls \ {k} : dict_get(cache', j) = dict_get(cache, j)

\* C5 (eviction on read): the first get(k) on an expired entry returns None
\* and removes k; k then stays absent, and get(k) keeps returning None, until
\* a set(k, _); an entry leaves the map only through a get on its own key that
\* finds it expired; a get on k changes no other key.
C5_EvictionOnRead == [][C5_Step]_vars

\* C5 witness: a get has just evicted the expired entry of its key and
\* answered None while another key's expired entry is still in the map.
C5_Witness ==
    /\ last.op = "cache.get"
    /\ last.pre # <<>> /\ ExpiredAt(last.pre[1], last.at)
    /\ last.ret = PyNone
    /\ dict_get(cache, last.url) = <<>>
    /\ \E j \in Urls \ {last.url} :
           dict_get(cache, j) # <<>> /\ ExpiredAt(dict_get(cache, j)[1], now)

----------------------------------------------------------------------------
(* Claims about RoyaleAPI: C2, C3 and C7 are checked under SpecFetch, C4 *)
(* under Spec                                                              *)

\* The calls that run fetch_api_request before they return: the operations
\* other than the generator function, and the generator's first next().
FetchingCalls ==
    (Operations \ {"get_player_battle_log"}) \cup {"next", "fetch_api_request"}

ErrorStatuses == {400, 403, 429, 500, 503}

\* The typed failure the specification's table gives each status.
TypedFailure(status) ==
    CASE status = 400 -> "InvalidParameter"
      [] status = 403 -> "InvalidAPIToken"
      [] status = 429 -> "RateLimitExceeded"
      [] status = 500 -> "APIError"
      [] status = 503 -> "APIError"
      [] OTHER -> "none"

\* The cache with url's entry dropped if it has expired, otherwise as it is:
\* what the lookup alone leaves.
AfterLookup(url) ==
    IF dict_get(cache, url) # <<>> /\ ExpiredAt(dict_get(cache, url)[1], now)
    THEN dict_pop(cache, url)
    ELSE cache

\* A step in which a fetch reached the server and got a classified error.
FailedFetchStep ==
    /\ now' = now
    /\ last'.op \in FetchingCalls
    /\ last'.gets = 1
    /\ last'.status \in ErrorStatuses

\* C2 as amended (status-to-error mapping): a fetch that misses the cache and
\* is answered 400/403/429/500/503 raises exactly the corresponding typed
\* failure and writes no entry; the cache is the one before the call except
\* that an expired entry of that url has been evicted by the lookup.
C2_StatusToError ==
    [][FailedFetchStep =>
          /\ last'.fexc = TypedFailure(last'.status)
          /\ last'.outcome = "raise" /\ last'.exc = last'.fexc
          /\ cache' = AfterLookup(last'.url)]_vars

\* C2 as stated: the same, with the cache left unchanged by the failed call.
C2_CacheUnchanged ==
    [][FailedFetchStep =>
          /\ last'.fexc = TypedFailure(last'.status)
          /\ cache' = cache]_vars

\* C2 witness: a fetch answered 403 has raised InvalidAPIToken; the lookup
\* found an expired entry for the url, which is gone.
C2_Witness ==
    /\ last.op \in FetchingCalls /\ last.gets = 1
    /\ last.status = 403 /\ last.exc = "InvalidAPIToken"
    /\ last.pre # <<>> /\ ExpiredAt(last.pre[1], last.at)
    /\ dict_get(cache, last.url) = <<>>

\* C3 (cache bypass on hit): a fetch of a url whose entry was stored by an
\* earlier successful fetch and is still within the TTL issues no GET and
\* returns the stored body.
C3_CacheBypassOnHit ==
    (/\ last.op \in FetchingCalls
     /\ last.pre # <<>>
     /\ ~ExpiredAt(last.pre[1], last.at)) =>
        /\ last.gets = 0
        /\ last.fexc = ""
        /\ last.ret = last.pre[2]

\* C4 (failures are raised immediately): a call of an exposed operation whose
\* request the server answers with 400/403/429/500/503 raises the typed
\* failure itself, having issued exactly one GET.
C4_RaisedByTheCall ==
    (last.op \in Operations /\ last.status \in ErrorStatuses) =>
        /\ last.outcome = "raise"
        /\ last.exc = TypedFailure(last.status)
        /\ last.gets = 1

\* C7 (unclassified status): a fetch answered with a status outside
\* 200/400/403/429/500/503 raises nothing, writes nothing to the cache and
\* returns None, whatever the cache held for the url.
C7_UnclassifiedStatus ==
    [][(/\ now' = now
        /\ last'.op \in FetchingCalls
        /\ last'.gets = 1
        /\ last'.status \notin ErrorStatuses \cup {200}) =>
          /\ last'.fexc = ""
          /\ last'.ret = PyNone
          /\ cache' = AfterLookup(last'.url)]_vars

----------------------------------------------------------------------------
(* Claim about the cache under concurrent callers, checked under SpecThreads *)

\* C6 (concurrent cache safety), the consequence the claim names: whatever
\* the interleaving of the threads' get and set calls, an entry removed from
\* the map by a get had expired when it was removed; a get never removes the
\* fresh entry a concurrent set has just stored.
C6_NoFreshEntryRemoved ==
    popped # <<>> =>
        (popped.entry = <<>> \/ ExpiredAt(popped.entry[1], popped.at))

----------------------------------------------------------------------------
(* Claim about the urls, checked under SpecUrl *)

\* The number of "#" among the first i characters of a tag.
Hashes(tag, i) == Cardinality({j \in 1..i : tag[j] = "#"})

\* Where the encoding of tag[i] starts in the url: after the text before the
\* tag (one element), each earlier "#" taking three places.
PlaceOf(tag, i) == 1 + i + 2 * Hashes(tag, i - 1)

\* C8 (url determinism): two builds from the same operation and tag give the
\* identical url; in a url, every "#" of the tag is replaced by "%23", every
\* other character is kept in place, and no literal "#" remains.
C8_UrlDeterminism ==
    /\ \A i, j \in 1..Len(built) :
          (built[i].op = built[j].op /\ built[i].tag = built[j].tag)
              => built[i].url = built[j].url
    /\ \A i \in 1..Len(built) :
          LET b == built[i]
              middle == Len(b.tag) + 2 * Hashes(b.tag, Len(b.tag))
          IN  /\ \A k \in 1..Len(b.url) : b.url[k] # "#"
              /\ Len(b.url) \in {1 + middle, 2 + middle}
              /\ \A k \in 1..Len(b.tag) :
                    LET at == PlaceOf(b.tag, k) IN
                    IF b.tag[k] = "#"
                    THEN SubSeq(b.url, at, at + 2) = <<"%", "2", "3">>
                    ELSE b.url[at] = b.tag[k]

\* C8 witness: the same tag, with two "#" in it, has been built into a url
\* twice by one operation; the url holds "%23" twice and no "#".
C8_Witness ==
    /\ Len(built) = 2
    /\ built[1].op = built[2].op /\ built[1].tag = built[2].tag
    /\ built[2].tag = <<"#", "#">>
    /\ built[2].url = built[1].url
    /\ Len(built[2].url) >= 7
    /\ SubSeq(built[2].url, 2, 7) = <<"%", "2", "3", "%", "2", "3">>

----------------------------------------------------------------------------
(* Claims about the wrapper objects, checked under SpecMemo and SpecLazy *)

\* C9 (memoization): on a wrapper object, the body of a memoized accessor
\* runs at most once; once the accessor has been read, every later read
\* returns the value the first read returned, even if the JSON has been
\* changed since.
C9_Memoization ==
    obj # <<>> =>
        /\ obj.convs <= 1
        /\ obj.reads >= 2 =>
              /\ obj.first.outcome = "return"
              /\ obj.rd = obj.first

\* C10 (lazy sequences with zero elements): when the payload holds no
\* sub-entity for an accessor, the generator the accessor returns ends at the
\* first next() having yielded nothing and raised nothing.
C10_EmptySequence ==
    (/\ seq # <<>>
     /\ seq.st # "created"
     /\ (~seq.payload.present \/ (seq.acc.body = "each" /\ seq.payload.n = 0))) =>
        /\ seq.st = "done"
        /\ seq.yielded = 0

----------------------------------------------------------------------------
(* Claim about get_player end to end, checked under SpecPlayer *)

\* The body carries the four fields the claim speaks of.
HasFields(b) ==
    /\ b.kind = "object"
    /\ b.name.t # "None" /\ b.expLevel.t # "None" /\ b.trophies.t # "None"
    /\ b.clan.t = "dict" /\ b.clan.tag # <<>>

\* The string/integer coercion of the body's value for a field.
Coerced(field, b) ==
    CASE field = "name" -> py_str(b.name)
      [] field = "experience_level" -> py_int(b.expLevel)
      [] field = "trophies" -> py_int(b.trophies)
      [] OTHER -> py_str(b.clan.tag[1])

\* The body of the end-to-end scenario.
AshBody ==
    PlayerBody(XStr(<<"A", "s", "h">>), XInt(13), XInt(6800),
               Clan(<<XStr(<<"#", "A", "B", "C">>)>>))

\* C11 (successful fetch end to end): when the latest get_player went to the
\* server and was answered 200, it returned; the cache holds the body the
\* server sent under the request url, stamped with the time of the call; the
\* Player wrapper holds that body; and, the body carrying name, expLevel,
\* trophies and clan.tag, every read of name, experience_level, trophies and
\* clan_tag returned the string/integer coercion of the body's value.
C11_SuccessfulFetch ==
    (last.op = "get_player" /\ last.gets = 1 /\ last.status = 200) =>
        /\ last.outcome = "return"
        /\ last.url = build_url("get_player", <<"#", "2">>)
        /\ \A k \in 1..Len(last.url) : last.url[k] # "#"
        /\ dict_get(cache, last.url) = <<last.at, obj.sent>>
        /\ last.ret = obj.sent
        /\ obj.data = obj.sent
        /\ HasFields(obj.sent) =>
              \A field \in DOMAIN obj.seen :
                  /\ obj.seen[field].outcome = "return"
                  /\ obj.seen[field] = Coerced(field, obj.sent)

\* C11 witness: a get_player that missed the cache was answered 200 with the
\* body {name: Ash, expLevel: 13, trophies: 6800, clan.tag: #ABC}; the body is
\* in the cache, and the four fields of the wrapper have been read as "Ash",
\* 13, 6800 and "#ABC".
C11_Witness ==
    /\ last.op = "get_player" /\ last.gets = 1 /\ last.status = 200
    /\ last.pre = <<>>
    /\ obj # <<>>
    /\ obj.sent = AshBody
    /\ dict_get(cache, last.url) = <<last.at, AshBody>>
    /\ DOMAIN obj.seen = PlayerFields
    /\ obj.seen["name"] = Value(XStr(<<"A", "s", "h">>))
    /\ obj.seen["experience_level"] = Value(XInt(13))
    /\ obj.seen["trophies"] = Value(XInt(6800))
    /\ obj.seen["clan_tag"] = Value(XStr(<<"#", "A", "B", "C">>))

----------------------------------------------------------------------------
(* Claim about the BaseCard accessors, checked under SpecMemo *)

\* The BaseCard accessors declared to return a string; the others return int.
CardStringFields == {"name", "rarity"}

\* What the claim has an accessor return for the value under its key.
CardExpected(acc, v) ==
    IF v = XNone THEN Value(XNone)
    ELSE IF acc.name \in CardStringFields THEN py_str(v)
    ELSE py_int(v)

\* C12 (BaseCard accessors): every run of the body of a BaseCard accessor
\* (name, id, level, max_level, rarity, count, elixir_cost, star_level,
\* evolution_level) returns None, raising nothing, when its key is absent
\* from the card JSON, and the string/integer coercion of the value when the
\* key is present.
C12_CardAccessors ==
    [][(/\ obj # <<>> /\ obj' # <<>>
        /\ obj.acc.cls = "BaseCard"
        /\ obj'.reads = obj.reads + 1
        /\ obj.memo = <<>>)
          => obj'.rd = CardExpected(obj.acc, obj.json)]_vars

====
